---------------------------- MODULE Spec2Model ----------------------------
(***************************************************************************)
(* A model of sudoku-Z3-solver.py: the Sudoku class (grid model, puzzle    *)
(* parser, cage parser, Z3 model builder, verifier, one-line renderer) and *)
(* the run that main() makes of it.                                        *)
(*                                                                         *)
(* Representation.  A Python str is a sequence of one-character strings:   *)
(* "A1" is <<"A", "1">>, and a character c taken by iterating a str is the *)
(* one-character str <<c>>.  A Python dict is a function whose domain is   *)
(* the set of its keys.  None is <<"None">> where a str may stand (it is no *)
(* str: its element is not one character) and <<>> where a dict or a list  *)
(* may stand (the program builds no empty dict or list).                   *)
(***************************************************************************)
EXTENDS Integers, Sequences, FiniteSets, TLC

VARIABLES
    pc,           \* position of the run: start, constructed, solved, verified, done,
                  \* rendered, crashed
    grid,         \* the puzzle text handed to the constructor
    problem,      \* self.problem (self.values is the same dict object)
    constraints,  \* self.constraints: the cage text, or None
    unit_cols,    \* self.unit_cols
    unit_rows,    \* self.unit_rows
    unit_boxes,   \* self.unit_boxes
    unitlist,     \* self.unitlist
    units,        \* self.units
    solution,     \* self.solution
    checked,      \* whether s.check() has been called by solve_z3
    exc,          \* the exception that ended the run, or NoExc
    verified,     \* the values is_solved() has returned, in order
    oneline,      \* what get_oneline_grid(self.problem) returned, or None
    shown         \* the grids get_side_by_side was given to display, if any

vars == <<pc, grid, problem, constraints, unit_cols, unit_rows, unit_boxes,
          unitlist, units, solution, checked, exc, verified, oneline, shown>>

None == <<"None">>
NoneObj == <<>>
NoExc == [type |-> "none", msg |-> "", in |-> ""]

(***************************************************************************)
(* Python str and list operations used by the program.                     *)
(***************************************************************************)
Range(s) == {s[i] : i \in 1..Len(s)}

\* The one-character str made of the character c.
Chr(c) == <<c>>

\* sub in s, for two strs: sub occurs in s as a contiguous run.
StrIn(sub, s) ==
    \E i \in 1..(Len(s) + 1) :
        /\ i + Len(sub) - 1 <= Len(s)
        /\ SubSeq(s, i, i + Len(sub) - 1) = sub

\* The characters str.strip() removes.
Whitespace == {" ", "\n", "\t", "\r"}

RECURSIVE LStrip(_)
LStrip(s) ==
    IF s = <<>> \/ Head(s) \notin Whitespace THEN s ELSE LStrip(Tail(s))

RECURSIVE RStrip(_)
RStrip(s) ==
    IF s = <<>> \/ s[Len(s)] \notin Whitespace THEN s
    ELSE RStrip(SubSeq(s, 1, Len(s) - 1))

Strip(s) == RStrip(LStrip(s))

\* s.split(sep) for a one-character sep: always at least one piece.
RECURSIVE Split(_, _)
Split(s, sep) ==
    IF \A i \in 1..Len(s) : s[i] # sep THEN <<s>>
    ELSE LET i == CHOOSE j \in 1..Len(s) :
                      /\ s[j] = sep
                      /\ \A h \in 1..(j - 1) : s[h] # sep
         IN  <<SubSeq(s, 1, i - 1)>> \o Split(SubSeq(s, i + 1, Len(s)), sep)

\* sep.join(parts)
RECURSIVE Join(_, _)
Join(sep, parts) ==
    IF parts = <<>> THEN <<>>
    ELSE IF Len(parts) = 1 THEN parts[1]
    ELSE parts[1] \o sep \o Join(sep, Tail(parts))

DigitChars == <<"0", "1", "2", "3", "4", "5", "6", "7", "8", "9">>
Digits == Range(DigitChars)

DigitVal(c) == (CHOOSE i \in 1..Len(DigitChars) : DigitChars[i] = c) - 1

\* int(s) for a str: surrounding whitespace is dropped, one leading "+" is
\* allowed, and the rest must be one or more decimal digits (the characters
\* "-" and "_" are outside the texts modelled); anything else is ValueError.
IntBody(s) ==
    LET t == Strip(s)
    IN  IF t # <<>> /\ Head(t) = "+" THEN Tail(t) ELSE t

IsIntLiteral(s) ==
    /\ IntBody(s) # <<>>
    /\ \A i \in 1..Len(IntBody(s)) : IntBody(s)[i] \in Digits

RECURSIVE DecimalValue(_)
DecimalValue(ds) ==
    IF ds = <<>> THEN 0
    ELSE 10 * DecimalValue(SubSeq(ds, 1, Len(ds) - 1)) + DigitVal(ds[Len(ds)])

PyInt(s) == DecimalValue(IntBody(s))

\* str(n) for an int n >= 0: decimal, no leading zeros.
RECURSIVE PyStr(_)
PyStr(n) ==
    IF n < 10 THEN <<DigitChars[n + 1]>>
    ELSE PyStr(n \div 10) \o <<DigitChars[(n % 10) + 1]>>

(***************************************************************************)
(* Grid model (Sudoku.__init__, Sudoku.cross).                             *)
(***************************************************************************)
rows == <<"A", "B", "C", "D", "E", "F", "G", "H", "I">>
cols == <<"1", "2", "3", "4", "5", "6", "7", "8", "9">>

\* [(a + b) for a in A for b in B]
cross(A, B) ==
    [k \in 1..(Len(A) * Len(B)) |->
        Chr(A[((k - 1) \div Len(B)) + 1]) \o Chr(B[((k - 1) % Len(B)) + 1])]

elements == cross(rows, cols)

\* The units the constructor builds (lines 33-37).
UnitCols == [j \in 1..Len(cols) |-> cross(rows, Chr(cols[j]))]
UnitRows == [i \in 1..Len(rows) |-> cross(Chr(rows[i]), cols)]

BoxRowGroups == <<<<"A", "B", "C">>, <<"D", "E", "F">>, <<"G", "H", "I">>>>
BoxColGroups == <<<<"1", "2", "3">>, <<"4", "5", "6">>, <<"7", "8", "9">>>>

\* A mutant of UnitBoxes: the column group follows the row group, so only
\* the three diagonal boxes are built, three times each.
UnitBoxesDiagonal ==
    [k \in 1..(Len(BoxRowGroups) * Len(BoxColGroups)) |->
        cross(BoxRowGroups[((k - 1) \div Len(BoxColGroups)) + 1],
              BoxColGroups[((k - 1) \div Len(BoxColGroups)) + 1])]

UnitBoxes ==
    [k \in 1..(Len(BoxRowGroups) * Len(BoxColGroups)) |->
        cross(BoxRowGroups[((k - 1) \div Len(BoxColGroups)) + 1],
              BoxColGroups[((k - 1) % Len(BoxColGroups)) + 1])]

\* {e: [u for u in unitlist if e in u] for e in elements}
UnitsIndex(ul) ==
    [e \in Range(elements) |-> SelectSeq(ul, LAMBDA u : e \in Range(u))]

(***************************************************************************)
(* Puzzle parser (Sudoku.parse_grid).                                      *)
(***************************************************************************)
DigitSymbols == <<"1", "2", "3", "4", "5", "6", "7", "8", "9">>
BlankSymbols == <<"0", ".">>

\* [c for c in grid if c in "123456789" or c in '0.']
KeptChars(g) ==
    SelectSeq(g, LAMBDA c : StrIn(Chr(c), DigitSymbols) \/ StrIn(Chr(c), BlankSymbols))

\* {e: v for e, v in zip(keys, vals)}: zip stops at the shorter list and a
\* repeated key keeps its last value.
ZipDict(keys, vals) ==
    LET n == IF Len(keys) < Len(vals) THEN Len(keys) ELSE Len(vals)
    IN  [e \in {keys[i] : i \in 1..n} |->
            Chr(vals[CHOOSE i \in 1..n :
                        /\ keys[i] = e
                        /\ \A j \in (i + 1)..n : keys[j] # e])]

GridLen == 81

\* A mutant of parse_grid: only too few symbols are refused (len(chars) < 81).
parse_grid_AtLeast(g) ==
    CHOOSE r \in {IF Len(chars) < GridLen
                      THEN [exc |-> "Exception", values |-> NoneObj]
                      ELSE [exc |-> "none", values |-> ZipDict(elements, chars)] :
                  chars \in {KeptChars(g)}} : TRUE

\* parse_grid(grid): the dict of the 81 cells, or the exception of line 68.
parse_grid(g) ==
    CHOOSE r \in {IF Len(chars) # GridLen
                      THEN [exc |-> "Exception", values |-> NoneObj]
                      ELSE [exc |-> "none", values |-> ZipDict(elements, chars)] :
                  chars \in {KeptChars(g)}} : TRUE

(***************************************************************************)
(* Cage constraint parser (Sudoku.get_constraints).                        *)
(***************************************************************************)
\* One pass of the loop body (lines 79-86) on the line const: the cage
\* (constr_squares, constr_sum), or the exception the body raises
\* (parts[1] of a line without "=", int() of a text that is no integer).
CageOfLine(const) ==
    LET parts == Split(Strip(const), "=")
    IN  IF Len(parts) < 2
            THEN [exc |-> "IndexError", cage |-> <<>>]
        ELSE IF ~IsIntLiteral(parts[2])
            THEN [exc |-> "ValueError", cage |-> <<>>]
        ELSE [exc |-> "none", cage |-> <<Split(parts[1], "+"), PyInt(parts[2])>>]

\* get_constraints(): the list of cages, or the exception of the first line
\* that raises one.
get_constraints(text) ==
    LET lines == Split(Strip(text), "\n")
        parsed == [i \in 1..Len(lines) |-> CageOfLine(lines[i])]
        bad == {i \in 1..Len(lines) : parsed[i].exc # "none"}
    IN  IF bad # {}
            THEN [exc |-> parsed[CHOOSE i \in bad : \A j \in bad : i <= j].exc,
                  cages |-> <<>>]
            ELSE [exc |-> "none",
                  cages |-> [i \in 1..Len(lines) |-> parsed[i].cage]]

(***************************************************************************)
(* The expression text solve_z3 builds for a cage and Python's eval of it  *)
(* (lines 121-126).  The texts modelled are made of the characters of      *)
(* ExprChars; on those, Lex and ParseSum follow Python's lexical analysis  *)
(* and grammar: a quote opens a string literal that runs to the next quote *)
(* (three quotes open one that runs to the next three), adjacent string    *)
(* literals are concatenated, and a name or a number next to a string      *)
(* literal with no operator between them is a SyntaxError.                 *)
(***************************************************************************)
Letters ==
    {"a", "b", "c", "d", "e", "f", "g", "h", "i", "j", "k", "l", "m", "n",
     "o", "p", "q", "r", "s", "t", "u", "v", "w", "x", "y", "z",
     "A", "B", "C", "D", "E", "F", "G", "H", "I", "J", "K", "L", "M", "N",
     "O", "P", "Q", "R", "S", "T", "U", "V", "W", "X", "Y", "Z", "_"}

ExprChars == Letters \cup Digits \cup {" ", "\t", "'", "+", "=", "[", "]"}

\* Names that, written right before a quote, are a string prefix.
StrPrefixes ==
    {<<"r">>, <<"R">>, <<"u">>, <<"U">>, <<"f">>, <<"F">>}
BytesPrefixes == {<<"b">>, <<"B">>}

SymbolsOpen == <<"s", "y", "m", "b", "o", "l", "s", "[", "'">>
SymbolsClose == <<"'", "]">>
SymbolsName == <<"s", "y", "m", "b", "o", "l", "s">>

\* The list without its repeated entries, first occurrences kept.
RECURSIVE Deduped(_)
Deduped(xs) ==
    IF xs = <<>> THEN <<>>
    ELSE LET front == Deduped(SubSeq(xs, 1, Len(xs) - 1))
         IN  IF xs[Len(xs)] \in Range(front) THEN front ELSE Append(front, xs[Len(xs)])

\* A mutant of ExprText: a cell listed twice in a cage is summed once.
ExprTextDeduped(c) ==
    Join(<<"+">>, [k \in 1..Len(Deduped(c[1])) |->
                      SymbolsOpen \o Deduped(c[1])[k] \o SymbolsClose])
        \o <<"=", "=">> \o PyStr(c[2])

\* "+".join("symbols['" + i + "']" for i in c[0]) + "==" + str(c[1])
ExprText(c) ==
    Join(<<"+">>, [k \in 1..Len(c[1]) |-> SymbolsOpen \o c[1][k] \o SymbolsClose])
        \o <<"=", "=">> \o PyStr(c[2])

ErrLex == [t |-> "err", v |-> <<>>]

\* The least index >= i of text whose character is not in S, or Len + 1.
RunEnd(text, i, S) ==
    IF \A j \in i..Len(text) : text[j] \in S THEN Len(text) + 1
    ELSE CHOOSE j \in i..Len(text) :
            /\ text[j] \notin S
            /\ \A h \in i..(j - 1) : text[h] \in S

\* The string literal whose opening quote is at i: <<content, next index>>,
\* or <<>> when it is not closed.
StrLitAt(text, i) ==
    IF i + 2 <= Len(text) /\ text[i + 1] = "'" /\ text[i + 2] = "'"
    THEN LET closes == {j \in (i + 3)..(Len(text) - 2) :
                            text[j] = "'" /\ text[j + 1] = "'" /\ text[j + 2] = "'"}
         IN  IF closes = {} THEN <<>>
             ELSE LET j == CHOOSE x \in closes : \A y \in closes : x <= y
                  IN  <<SubSeq(text, i + 3, j - 1), j + 3>>
    ELSE LET closes == {j \in (i + 1)..Len(text) : text[j] = "'"}
         IN  IF closes = {} THEN <<>>
             ELSE LET j == CHOOSE x \in closes : \A y \in closes : x <= y
                  IN  <<SubSeq(text, i + 1, j - 1), j + 1>>

RECURSIVE Lex(_, _)
Lex(text, i) ==
    IF i > Len(text) THEN <<>>
    ELSE IF text[i] \in {" ", "\t"} THEN Lex(text, i + 1)
    ELSE IF text[i] = "'" THEN
        LET lit == StrLitAt(text, i)
        IN  IF lit = <<>> THEN <<ErrLex>>
            ELSE <<[t |-> "str", v |-> lit[1]]>> \o Lex(text, lit[2])
    ELSE IF text[i] \in Digits THEN
        LET j == RunEnd(text, i, Digits)
            num == SubSeq(text, i, j - 1)
        IN  IF j <= Len(text) /\ text[j] \in Letters THEN <<ErrLex>>
            ELSE IF Len(num) > 1 /\ num[1] = "0" /\ \E h \in 1..Len(num) : num[h] # "0"
                THEN <<ErrLex>>
            ELSE <<[t |-> "num", v |-> num]>> \o Lex(text, j)
    ELSE IF text[i] \in Letters THEN
        LET j == RunEnd(text, i, Letters \cup Digits)
            name == SubSeq(text, i, j - 1)
        IN  IF j <= Len(text) /\ text[j] = "'" /\ name \in StrPrefixes \cup BytesPrefixes
            THEN LET lit == StrLitAt(text, j)
                 IN  IF lit = <<>> THEN <<ErrLex>>
                     ELSE <<[t |-> IF name \in BytesPrefixes THEN "bytes" ELSE "str",
                             v |-> lit[1]]>> \o Lex(text, lit[2])
            ELSE <<[t |-> "name", v |-> name]>> \o Lex(text, j)
    ELSE IF text[i] = "=" THEN
        IF i + 1 <= Len(text) /\ text[i + 1] = "="
        THEN <<[t |-> "op", v |-> <<"=", "=">>]>> \o Lex(text, i + 2)
        ELSE <<ErrLex>>
    ELSE IF text[i] \in {"+", "[", "]"} THEN
        <<[t |-> "op", v |-> <<text[i]>>]>> \o Lex(text, i + 1)
    ELSE <<ErrLex>>

Op(c) == [t |-> "op", v |-> c]

RECURSIVE Concat(_)
Concat(parts) == IF parts = <<>> THEN <<>> ELSE Head(parts) \o Concat(Tail(parts))

\* The lexemes from i on as NAME [ STRING+ ] (+ NAME [ STRING+ ])* == NUMBER:
\* the subscripted names in order and the number, or a SyntaxError.  A key
\* made of bytes literals is kept apart from every str key.
RECURSIVE ParseSum(_, _, _)
ParseSum(L, i, terms) ==
    IF ~(i + 2 <= Len(L) /\ L[i].t = "name" /\ L[i + 1] = Op(<<"[">>)
                         /\ L[i + 2].t \in {"str", "bytes"})
    THEN [exc |-> "SyntaxError", terms |-> <<>>, rhs |-> 0]
    ELSE LET j == CHOOSE x \in (i + 3)..(Len(L) + 1) :
                      /\ x = Len(L) + 1 \/ L[x].t \notin {"str", "bytes"}
                      /\ \A h \in (i + 2)..(x - 1) : L[h].t \in {"str", "bytes"}
             kinds == {L[h].t : h \in (i + 2)..(j - 1)}
             text == Concat([h \in 1..(j - i - 2) |-> L[i + 1 + h].v])
             key == IF kinds = {"str"} THEN text ELSE <<"bytes">> \o text
             term == [name |-> L[i].v, key |-> key]
         IN  IF Cardinality(kinds) # 1 \/ j > Len(L) \/ L[j] # Op(<<"]">>)
                 THEN [exc |-> "SyntaxError", terms |-> <<>>, rhs |-> 0]
             ELSE IF j + 1 <= Len(L) /\ L[j + 1] = Op(<<"+">>)
                 THEN ParseSum(L, j + 2, Append(terms, term))
             ELSE IF j + 2 = Len(L) /\ L[j + 1] = Op(<<"=", "=">>) /\ L[j + 2].t = "num"
                 THEN [exc |-> "none", terms |-> Append(terms, term),
                       rhs |-> DecimalValue(L[j + 2].v)]
             ELSE [exc |-> "SyntaxError", terms |-> <<>>, rhs |-> 0]

\* symbols = {e: Int(e) for e in self.elements}: the Z3 variable of a cell
\* is known by the cell's key.
SymbolKeys == Range(elements)

\* eval(text) with symbols in scope: the Z3 constraint "sum of the
\* variables == number", or the exception raised: SyntaxError, NameError for
\* a name other than symbols, KeyError for a subscript that is no key of
\* symbols (operands are evaluated left to right).
PyEval(text) ==
    LET p == ParseSum(Lex(text, 1), 1, <<>>)
        bad == IF p.exc # "none" THEN {}
               ELSE {k \in 1..Len(p.terms) :
                        p.terms[k].name # SymbolsName \/ p.terms[k].key \notin SymbolKeys}
        first == CHOOSE k \in bad : \A h \in bad : k <= h
    IN  IF p.exc # "none" THEN [exc |-> p.exc, con |-> <<>>]
        ELSE IF bad # {}
            THEN [exc |-> IF p.terms[first].name # SymbolsName
                          THEN "NameError" ELSE "KeyError",
                  con |-> <<>>]
        ELSE [exc |-> "none",
              con |-> <<[kind |-> "SumEq",
                         vars |-> [k \in 1..Len(p.terms) |-> p.terms[k].key],
                         vals |-> {p.rhs}]>>]

(***************************************************************************)
(* Constraint model builder (Sudoku.solve_z3, lines 94-131).  A Z3         *)
(* constraint is a record: kind Or (the variable takes one of vals),       *)
(* Distinct (the variables are pairwise different), SumEq (the sum of the  *)
(* variables, each counted as often as it is listed, is the number in      *)
(* vals), Eq (the variable is the number in vals).                         *)
(***************************************************************************)
RowLetters == <<"A", "B", "C", "D", "E", "F", "G", "H", "I">>
ColDigits == <<"1", "2", "3", "4", "5", "6", "7", "8", "9">>
BoxSide == 3

\* for symbol in symbols.values(): s.add(Or([symbol == int(i) for i in self.cols]))
DomainConstraints ==
    [k \in 1..Len(elements) |->
        [kind |-> "Or", vars |-> <<elements[k]>>,
         vals |-> {PyInt(Chr(cols[i])) : i \in 1..Len(cols)}]]

\* for row in "ABCDEFGHI": s.add(Distinct([symbols[row + col] for col in "123456789"]))
RowConstraints ==
    [r \in 1..Len(RowLetters) |->
        [kind |-> "Distinct",
         vars |-> [c \in 1..Len(ColDigits) |-> Chr(RowLetters[r]) \o Chr(ColDigits[c])],
         vals |-> {}]]

\* for col in "123456789": s.add(Distinct([symbols[row + col] for row in "ABCDEFGHI"]))
ColConstraints ==
    [c \in 1..Len(ColDigits) |->
        [kind |-> "Distinct",
         vars |-> [r \in 1..Len(RowLetters) |-> Chr(RowLetters[r]) \o Chr(ColDigits[c])],
         vals |-> {}]]

\* A mutant of BoxCells: the box offsets are not scaled (m + i, n + j).
BoxCellsUnscaled(i, j) ==
    [k \in 1..(BoxSide * BoxSide) |->
        LET m == (k - 1) \div BoxSide
            n == (k - 1) % BoxSide
        IN  Chr(RowLetters[(m + i) + 1]) \o Chr(ColDigits[(n + j) + 1])]

\* symbols["ABCDEFGHI"[m + i * 3] + "123456789"[n + j * 3]] for m in range(3)
\* for n in range(3): the cells of the box (i, j), with i, j, m, n from 0.
BoxCells(i, j) ==
    [k \in 1..(BoxSide * BoxSide) |->
        LET m == (k - 1) \div BoxSide
            n == (k - 1) % BoxSide
        IN  Chr(RowLetters[(m + i * 3) + 1]) \o Chr(ColDigits[(n + j * 3) + 1])]

\* for i in range(3): for j in range(3): s.add(Distinct([...]))
BoxConstraints ==
    [k \in 1..(BoxSide * BoxSide) |->
        [kind |-> "Distinct",
         vars |-> BoxCells((k - 1) \div BoxSide, (k - 1) % BoxSide),
         vals |-> {}]]

\* The cage part (lines 117-126): the constraints eval returns for the cages
\* in order, or the first exception (of get_constraints, or of an eval).
CageConstraints(text) ==
    IF text = None THEN [exc |-> "none", cons |-> <<>>]
    ELSE LET sum_constr == get_constraints(text)
             ev == [k \in 1..Len(sum_constr.cages) |->
                        PyEval(ExprText(sum_constr.cages[k]))]
             bad == {k \in 1..Len(sum_constr.cages) : ev[k].exc # "none"}
         IN  IF sum_constr.exc # "none"
                 THEN [exc |-> sum_constr.exc, cons |-> <<>>]
             ELSE IF bad # {}
                 THEN [exc |-> ev[CHOOSE k \in bad : \A h \in bad : k <= h].exc,
                       cons |-> <<>>]
             ELSE [exc |-> "none", cons |-> Concat([k \in 1..Len(ev) |-> ev[k].con])]

\* if value in "123456789": s.add(symbols[elem] == value), for the items of
\* self.values in the dict's order; Z3 reads the str value as a numeral.
\* A mutant of IsGiven: "0" counts as a given digit (value in "0123456789").
IsGivenOrZero(value) == StrIn(value, DigitChars)

IsGiven(value) == StrIn(value, DigitSymbols)

FixConstraints(values) ==
    LET given == SelectSeq(elements, LAMBDA e : e \in DOMAIN values /\ IsGiven(values[e]))
    IN  [k \in 1..Len(given) |->
            [kind |-> "Eq", vars |-> <<given[k]>>, vals |-> {PyInt(values[given[k]])}]]

\* Everything solve_z3 adds to the solver before s.check().
SolverConstraints(values, cagecons) ==
    DomainConstraints \o RowConstraints \o ColConstraints \o BoxConstraints
        \o cagecons \o FixConstraints(values)

(***************************************************************************)
(* Z3 (s.check(), s.model()): check() is sat exactly when some assignment  *)
(* of integers to the variables satisfies every constraint added, and      *)
(* model() is one such assignment, any of them.  Z3's integers are         *)
(* unbounded; the candidates are enumerated over the digits' range widened *)
(* by IntSlack on each side.                                               *)
(***************************************************************************)
IntSlack == 1

Z3Ints ==
    (PyInt(Chr(cols[1])) - IntSlack)..(PyInt(Chr(cols[Len(cols)])) + IntSlack)

RECURSIVE SumSeq(_)
SumSeq(ns) == IF ns = <<>> THEN 0 ELSE Head(ns) + SumSeq(Tail(ns))

\* The value of variable v under the assignment made of g and only, two
\* functions with disjoint domains.
Val(v, g, only) == IF v \in DOMAIN g THEN g[v] ELSE only[v]

\* A mutant of Holds: Distinct compares neighbours in the list only.
HoldsAdjacentOnly(c, g, only) ==
    CASE c.kind = "Or" -> Val(c.vars[1], g, only) \in c.vals
      [] c.kind = "Eq" -> Val(c.vars[1], g, only) \in c.vals
      [] c.kind = "Distinct" ->
            \A i \in 1..(Len(c.vars) - 1) :
                Val(c.vars[i], g, only) # Val(c.vars[i + 1], g, only)
      [] c.kind = "SumEq" ->
            SumSeq([k \in 1..Len(c.vars) |-> Val(c.vars[k], g, only)]) \in c.vals

\* Whether the assignment satisfies the constraint c.
Holds(c, g, only) ==
    CASE c.kind = "Or" -> Val(c.vars[1], g, only) \in c.vals
      [] c.kind = "Eq" -> Val(c.vars[1], g, only) \in c.vals
      [] c.kind = "Distinct" ->
            \A i \in 1..Len(c.vars) : \A j \in (i + 1)..Len(c.vars) :
                Val(c.vars[i], g, only) # Val(c.vars[j], g, only)
      [] c.kind = "SumEq" ->
            SumSeq([k \in 1..Len(c.vars) |-> Val(c.vars[k], g, only)]) \in c.vals

Z3Vars(s) == UNION {Range(s[i].vars) : i \in 1..Len(s)}

\* The values the one-variable constraints leave to v.
Z3Dom(s, v) ==
    {x \in Z3Ints :
        \A i \in 1..Len(s) :
            (s[i].kind \in {"Or", "Eq"} /\ s[i].vars = <<v>>) => x \in s[i].vals}

\* The assignments that give the open variables a value each and the other
\* variables their only value, and satisfy every constraint of s.  The
\* constraints with no open variable (rest) are decided once; those with one
\* (touching) are decided for each candidate.
Z3Search(s, dom, open, only) ==
    UNION {IF \E i \in rest : ~Holds(s[i], <<>>, only) THEN {}
           ELSE {[v \in DOMAIN dom |-> Val(v, g, only)] :
                    g \in {h \in [open -> Z3Ints] :
                              /\ \A v \in open : h[v] \in dom[v]
                              /\ \A i \in touching : Holds(s[i], h, only)}} :
        touching \in {{i \in 1..Len(s) : Range(s[i].vars) \cap open # {}}},
        rest \in {{i \in 1..Len(s) : Range(s[i].vars) \cap open = {}}}}

\* The satisfying assignments of s.  Variables whose one-variable
\* constraints leave a single value take it; the others are enumerated.
\* (Each part is computed once: it is bound as the element of a one-element
\* set.)
Z3Models(s) ==
    UNION {UNION {UNION {Z3Search(cs, dom, open, only) :
        only \in {[v \in (DOMAIN dom) \ open |->
                      CHOOSE x \in Z3Ints : dom[v] \subseteq {x}]}} :
        open \in {{v \in DOMAIN dom : Cardinality(dom[v]) > 1}}} :
        cs \in {s},
        dom \in {d \in {[v \in Z3Vars(s) |-> Z3Dom(s, v)]} :
                    \A v \in DOMAIN d : d[v] # {}}}

\* model.evaluate(sym).as_string(): the integer in decimal.
AsString(n) == IF n < 0 THEN <<"-">> \o PyStr(0 - n) ELSE PyStr(n)

(***************************************************************************)
(* Verifier and one-line renderer (is_solved, get_oneline_grid).           *)
(***************************************************************************)
is_solved(sol, ul) ==
    IF ~(\A e \in DOMAIN sol : StrIn(sol[e], DigitSymbols)) THEN FALSE
    ELSE \A k \in 1..Len(ul) :
            {sol[e] : e \in Range(ul[k])} = {Chr(c) : c \in Range(DigitSymbols)}

GridPrefix == <<"[", "+", "]", " ", "G", "R", "I", "D", ":">>

\* A mutant of get_oneline_grid: the cells are joined column by column.
get_oneline_grid_ByColumn(g) ==
    GridPrefix \o Concat([k \in 1..Len(elements) |-> g[<<cross(cols, rows)[k][2], cross(cols, rows)[k][1]>>]])
        \o <<"\n">>

\* "[+] GRID:" + ''.join(grid[e] for e in self.elements) + "\n"
get_oneline_grid(g) ==
    GridPrefix \o Concat([k \in 1..Len(elements) |-> g[elements[k]]]) \o <<"\n">>

(***************************************************************************)
(* Inputs.  Puzzles are made from the solution of main()'s HARDEST puzzle: *)
(* the first k cells of BlankOrder are blanked (k <= MaxBlanks), one given *)
(* (A9) may be overwritten with A8's digit, the text may be laid out as a *)
(* boxed grid, and a symbol may be dropped or added.  A3, A6, B3, B6 hold  *)
(* 2, 3, 3, 2: blanking all four leaves two solutions.                     *)
(***************************************************************************)
Solved ==
    <<"8", "1", "2", "7", "5", "3", "6", "4", "9",
     "9", "4", "3", "6", "8", "2", "1", "7", "5",
     "6", "7", "5", "4", "9", "1", "2", "8", "3",
     "1", "5", "4", "2", "3", "7", "8", "9", "6",
     "3", "6", "9", "8", "4", "5", "7", "2", "1",
     "2", "8", "7", "1", "6", "9", "5", "3", "4",
     "5", "2", "1", "9", "7", "4", "3", "6", "8",
     "4", "3", "8", "5", "2", "6", "9", "1", "7",
     "7", "9", "6", "3", "1", "8", "4", "5", "2">>

MaxBlanks == 4

\* Row-major indices of A3, A6, B3, B6, A1, C1.
BlankOrder == <<3, 6, 12, 15, 1, 19>>

Blanked(k) == {BlankOrder[h] : h \in 1..k}

\* The 81 symbols: style "0" writes every blank as 0, style "mix" writes the
\* blanks at odd indices as "." and the others as 0.
PuzzleSymbols(k, style, clash) ==
    [i \in 1..Len(Solved) |->
        IF i \in Blanked(k)
            THEN (IF style = "mix" /\ i % 2 = 1 THEN "." ELSE "0")
        ELSE IF clash /\ i = Len(cols) THEN Solved[i - 1]
        ELSE Solved[i]]

Cut(S, cut) ==
    CASE cut = "ok" -> S
      [] cut = "short" -> SubSeq(S, 1, Len(S) - 1)
      [] cut = "long" -> S \o <<"5">>

Border == <<"+", "-", "-", "-", "+", "-", "-", "-", "+", "\n">>

Boxed(S) ==
    Concat([i \in 1..Len(S) |->
                (IF (i - 1) % 27 = 0 THEN Border ELSE <<>>)
                    \o (IF (i - 1) % 3 = 0 THEN <<"|", " ">> ELSE <<>>)
                    \o <<S[i]>>
                    \o (IF i % 9 = 0 THEN <<" ", "|", "\n">> ELSE <<" ">>)])
        \o Border

Laid(S, layout) == IF layout = "boxed" THEN Boxed(S) ELSE S

PuzzleInputs ==
    {PuzzleSymbols(k, "mix", FALSE) : k \in 0..MaxBlanks}
    \cup
    {PuzzleSymbols(k, style, clash) :
        k \in 0..2, style \in {"0", "mix"}, clash \in BOOLEAN}
    \cup
    {Laid(Cut(PuzzleSymbols(k, "mix", FALSE), cut), layout) :
        k \in 1..2, cut \in {"ok", "short", "long"}, layout \in {"plain", "boxed"}}
    \cup {<<>>}

CageFits == <<"A", "3", "+", "A", "6", "=", "5">>  \* 'A3+A6=5'
CageRepeat == <<"A", "3", "+", "A", "3", "+", "A", "6", "=", "7">>  \* 'A3+A3+A6=7'
CageMisses == <<"A", "3", "+", "A", "6", "=", "3">>  \* 'A3+A6=3'
CageRepeatMisses == <<"A", "3", "+", "A", "3", "+", "A", "6", "=", "5">>  \* 'A3+A3+A6=5'
CageBlock == <<"\n", " ", " ", "A", "3", "+", "A", "6", "=", "5", "\n", " ", " ", "A", "3", "+", "A", "3", "+", "A", "6", "=", "0", "7", " ", "\n">>  \* '\n  A3+A6=5\n  A3+A3+A6=07 \n'
CageOffGrid == <<"J", "1", "+", "A", "3", "=", "5">>  \* 'J1+A3=5'
CageSpaced == <<"A", "3", " ", "+", "A", "6", "=", "5">>  \* 'A3 +A6=5'
CageEmptyRef == <<"A", "3", "+", "+", "A", "6", "=", "5">>  \* 'A3++A6=5'
CageLower == <<"a", "3", "+", "A", "6", "=", "5">>  \* 'a3+A6=5'
CageNoEquals == <<"A", "3", "+", "A", "6">>  \* 'A3+A6'
CageNoSum == <<"A", "3", "+", "A", "6", "=">>  \* 'A3+A6='

CageInputs ==
    {None, CageFits, CageRepeat, CageMisses, CageRepeatMisses, CageBlock, CageOffGrid, CageSpaced,
     CageEmptyRef, CageLower, CageNoEquals, CageNoSum}

\* Cage texts with a quote inside a cell reference.
CageQuoted == <<"A", "'", "'", "3", "+", "A", "6", "=", "5">>  \* "A''3+A6=5"
CageQuotedGap == <<"A", "'", " ", "'", "3", "+", "A", "3", "+", "A", "6", "=", "7">>  \* "A' '3+A3+A6=7"
CageOneQuote == <<"A", "'", "3", "+", "A", "6", "=", "5">>  \* "A'3+A6=5"

QuotedCageInputs == {CageQuoted, CageQuotedGap, CageOneQuote}

(***************************************************************************)
(* The run: Sudoku(problem, constraints), solve_z3(), is_solved(), the     *)
(* side-by-side display, as main() makes them (lines 262-266); nothing in  *)
(* the program catches an exception of these calls, so one ends the run.   *)
(* A caller may instead render the parsed puzzle with get_oneline_grid.     *)
(***************************************************************************)
Init ==
    /\ pc = "start"
    /\ grid = None
    /\ problem = NoneObj
    /\ constraints = None
    /\ unit_cols = NoneObj
    /\ unit_rows = NoneObj
    /\ unit_boxes = NoneObj
    /\ unitlist = NoneObj
    /\ units = NoneObj
    /\ solution = NoneObj
    /\ checked = FALSE
    /\ exc = NoExc
    /\ verified = <<>>
    /\ oneline = None
    /\ shown = <<>>

Raise(type, msg, in) == [type |-> type, msg |-> msg, in |-> in]

\* s = Sudoku(problem=g, constraints=c)
Construct(g, c) ==
    /\ pc = "start"
    /\ grid' = g
    /\ \E parsed \in {parse_grid(g)} :
          IF parsed.exc # "none"
          THEN /\ pc' = "crashed"
               /\ exc' = Raise(parsed.exc, "got invalid puzzle format", "__init__")
               /\ UNCHANGED <<problem, constraints, unit_cols, unit_rows, unit_boxes,
                              unitlist, units, solution>>
          ELSE /\ pc' = "constructed"
               /\ problem' = parsed.values
               /\ constraints' = c
               /\ unit_cols' = UnitCols
               /\ unit_rows' = UnitRows
               /\ unit_boxes' = UnitBoxes
               /\ unitlist' = UnitCols \o UnitRows \o UnitBoxes
               /\ units' = UnitsIndex(UnitCols \o UnitRows \o UnitBoxes)
               /\ solution' = NoneObj
               /\ exc' = exc
    /\ UNCHANGED <<checked, verified, oneline, shown>>

\* s.solve_z3(); self.values is self.problem.
SolveZ3 ==
    /\ pc = "constructed"
    /\ \E cage \in {CageConstraints(constraints)} :
          IF cage.exc # "none"
          THEN /\ pc' = "crashed"
               /\ exc' = Raise(cage.exc, "", "solve_z3")
               /\ UNCHANGED <<solution, checked>>
          ELSE \E models \in {Z3Models(SolverConstraints(problem, cage.cons))} :
                  IF models = {}
                  THEN /\ pc' = "crashed"
                       /\ exc' = Raise("Exception", "Unsolvable", "solve_z3")
                       /\ checked' = TRUE
                       /\ UNCHANGED solution
                  ELSE /\ \E model \in models :
                             solution' = [e \in Range(elements) |-> AsString(model[e])]
                       /\ pc' = "solved"
                       /\ checked' = TRUE
                       /\ exc' = exc
    /\ UNCHANGED <<grid, problem, constraints, unit_cols, unit_rows, unit_boxes,
                   unitlist, units, verified, oneline, shown>>

\* print("Solved: ...".format(s.is_solved()))
IsSolved ==
    /\ pc = "solved"
    /\ verified' = Append(verified, is_solved(solution, unitlist))
    /\ pc' = "verified"
    /\ UNCHANGED <<grid, problem, constraints, unit_cols, unit_rows, unit_boxes,
                   unitlist, units, solution, checked, exc, oneline, shown>>

\* print(s.get_side_by_side(s.problem, s.solution))
Display ==
    /\ pc = "verified"
    /\ shown' = <<problem, solution>>
    /\ pc' = "done"
    /\ UNCHANGED <<grid, problem, constraints, unit_cols, unit_rows, unit_boxes,
                   unitlist, units, solution, checked, exc, verified, oneline>>

\* s.get_oneline_grid(s.problem), by a caller that renders the parsed puzzle
\* instead of solving it (pretty_format).
GetOnelineGrid ==
    /\ pc = "constructed"
    /\ oneline' = get_oneline_grid(problem)
    /\ pc' = "rendered"
    /\ UNCHANGED <<grid, problem, constraints, unit_cols, unit_rows, unit_boxes,
                   unitlist, units, solution, checked, exc, verified, shown>>

Run(cageTexts) ==
    \/ \E g \in PuzzleInputs, c \in cageTexts : Construct(g, c)
    \/ SolveZ3
    \/ IsSolved
    \/ Display
    \/ GetOnelineGrid

Next == Run(CageInputs)

Spec == Init /\ [][Next]_vars

\* The same run with the quoted cage texts among the inputs.
NextQuoted == Run(CageInputs \cup QuotedCageInputs)

SpecQuoted == Init /\ [][NextQuoted]_vars

(***************************************************************************)
(* is_solved as a function of an assignment and a cage text: the object is *)
(* built from the all-blank puzzle, self.solution is one of VerifyInputs   *)
(* (the solved grid with two digits exchanged everywhere, which is again a *)
(* solved grid), and is_solved() is applied.                               *)
(***************************************************************************)
BlankGrid == [i \in 1..GridLen |-> "0"]

Exchanged(a, b) ==
    [i \in 1..Len(Solved) |->
        IF Solved[i] = a THEN b ELSE IF Solved[i] = b THEN a ELSE Solved[i]]

VerifyInputs ==
    {ZipDict(elements, Exchanged(DigitSymbols[a], DigitSymbols[b])) :
        a \in 1..Len(DigitSymbols), b \in 1..Len(DigitSymbols)}

InitVerify ==
    /\ pc = "solved"
    /\ grid = BlankGrid
    /\ problem = parse_grid(BlankGrid).values
    /\ constraints \in {None, CageFits, CageRepeat, CageMisses}
    /\ unit_cols = UnitCols
    /\ unit_rows = UnitRows
    /\ unit_boxes = UnitBoxes
    /\ unitlist = UnitCols \o UnitRows \o UnitBoxes
    /\ units = UnitsIndex(UnitCols \o UnitRows \o UnitBoxes)
    /\ solution \in VerifyInputs
    /\ checked = TRUE
    /\ exc = NoExc
    /\ verified = <<>>
    /\ oneline = None
    /\ shown = <<>>

NextVerify == IsSolved

SpecVerify == InitVerify /\ [][NextVerify]_vars

(***************************************************************************)
(* The grid as the specification describes it, for stating the claims:     *)
(* cells A1..I9 in row-major order, 9 rows, 9 columns, 9 boxes.            *)
(***************************************************************************)
GridRows == <<"A", "B", "C", "D", "E", "F", "G", "H", "I">>
GridCols == <<"1", "2", "3", "4", "5", "6", "7", "8", "9">>

CellKeys == {<<r, c>> : r \in Range(GridRows), c \in Range(GridCols)}

\* The i-th cell of A1..A9, B1..I9.
CellAt(i) == <<GridRows[((i - 1) \div 9) + 1], GridCols[((i - 1) % 9) + 1]>>

RowSets == {{<<r, c>> : c \in Range(GridCols)} : r \in Range(GridRows)}
ColSets == {{<<r, c>> : r \in Range(GridRows)} : c \in Range(GridCols)}
BoxSets ==
    {{<<GridRows[3 * i + m], GridCols[3 * j + n]>> : m \in 1..3, n \in 1..3} :
        i \in 0..2, j \in 0..2}
UnitSets == RowSets \cup ColSets \cup BoxSets

DigitStrs == {<<"1">>, <<"2">>, <<"3">>, <<"4">>, <<"5">>, <<"6">>, <<"7">>, <<"8">>, <<"9">>}
BlankStrs == {<<"0">>, <<".">>}

\* The digit a one-character str "1".."9" writes.
DigitOf(str) == CHOOSE d \in 1..9 : GridCols[d] = str[1]

\* The symbols of a puzzle text, in order.
Symbols(g) == SelectSeq(g, LAMBDA c : <<c>> \in DigitStrs \cup BlankStrs)

\* solve_z3 has returned or raised.
SolveReturned == pc \in {"solved", "verified", "done"}
SolveRaised == pc = "crashed" /\ exc.in = "solve_z3"
Constructed == pc \notin {"start", "crashed"} \/ SolveRaised

\* The cages get_constraints returns for self.constraints (none for None).
Cages == IF constraints = None THEN <<>> ELSE get_constraints(constraints).cages

CagesParse == constraints = None \/ get_constraints(constraints).exc = "none"

CageRefs == UNION {Range(Cages[k][1]) : k \in 1..Len(Cages)}

\* The sum of the digits sol gives the references of a cage, each reference
\* counted as often as it is listed.
RECURSIVE CageSum(_, _)
CageSum(refs, sol) ==
    IF refs = <<>> THEN 0 ELSE DigitOf(sol[Head(refs)]) + CageSum(Tail(refs), sol)

\* sol is total, holds digits only, and satisfies the units, the cages and
\* the givens of the puzzle.
IsTotal(sol) == DOMAIN sol = CellKeys /\ \A e \in CellKeys : sol[e] \in DigitStrs

UnitsHold(sol) == \A u \in UnitSets : {sol[e] : e \in u} = DigitStrs

CagesHold(sol) ==
    \A k \in 1..Len(Cages) : CageSum(Cages[k][1], sol) = Cages[k][2]

GivensHold(sol) == \A e \in CellKeys : problem[e] \in DigitStrs => sol[e] = problem[e]

\* Some assignment of digits 1..9 to the 81 cells satisfies the units, the
\* cages and the givens.  The assignments are enumerated over the cells that
\* are not given; the first conjunct (no digit of a given cell of the same
\* unit) follows from the second and only orders the evaluation.
Unknown == {e \in CellKeys : problem[e] \notin DigitStrs}

SeenBy(e) == {problem[f] : f \in UNION {u \in UnitSets : e \in u}} \cap DigitStrs

Satisfiable ==
    \E unknown \in {Unknown} :
    \E given \in {[e \in CellKeys \ unknown |-> problem[e]]} :
    \E seen \in {[e \in unknown |-> SeenBy(e)]} :
    \E touched \in {{u \in UnitSets : u \cap unknown # {}}} :
        /\ \A u \in UnitSets \ touched : {given[e] : e \in u} = DigitStrs
        /\ \E g \in [unknown -> DigitStrs] :
              /\ \A e \in unknown : g[e] \notin seen[e]
              /\ \A u \in touched :
                    {IF e \in unknown THEN g[e] ELSE given[e] : e \in u} = DigitStrs
              /\ \A k \in 1..Len(Cages) :
                    CageSum(Cages[k][1], [e \in CageRefs |->
                                IF e \in unknown THEN g[e] ELSE given[e]]) = Cages[k][2]

(***************************************************************************)
(* Claims.                                                                 *)
(***************************************************************************)

\* The outcome C1 describes: a returned solution is total and satisfies the
\* units, the cages and the givens; a raise is the "Unsolvable" exception,
\* records no solution and happens only when no assignment exists.
TwoOutcomes ==
    \/ /\ SolveReturned
       /\ IsTotal(solution) /\ UnitsHold(solution)
       /\ CagesHold(solution) /\ GivensHold(solution)
    \/ /\ SolveRaised
       /\ exc.type = "Exception" /\ exc.msg = "Unsolvable"
       /\ checked
       /\ solution = NoneObj
       /\ ~Satisfiable

C2_UnitsComplete ==
    /\ SolveReturned =>
          \A k \in 1..Len(unitlist) : \A d \in DigitStrs :
              Cardinality({i \in 1..Len(unitlist[k]) : solution[unitlist[k][i]] = d}) = 1
    /\ Constructed =>
          /\ Len(BoxConstraints) = Len(unit_boxes)
          /\ {Range(BoxConstraints[k].vars) : k \in 1..Len(BoxConstraints)}
                = {Range(unit_boxes[k]) : k \in 1..Len(unit_boxes)}
    /\ pc \in {"verified", "done"} => verified = <<TRUE>>

\* is_solved has answered true for the solution of a puzzle with four
\* unknown cells.
C2_Witness ==
    /\ pc = "verified" /\ verified = <<TRUE>>
    /\ Cardinality(Unknown) > 3

\* C3: in every returned solution, for every cage, the digits of the listed
\* cells sum to the cage's target, a cell listed k times counted k times.
C3_CageSums ==
    (SolveReturned /\ constraints # None) =>
        /\ CagesParse
        /\ CageRefs \subseteq CellKeys
        /\ \A k \in 1..Len(Cages) : CageSum(Cages[k][1], solution) = Cages[k][2]

\* A solution was returned for a cage that lists a cell twice, on a puzzle
\* that has several solutions without the cage.
C3_Witness ==
    /\ SolveReturned
    /\ constraints = CageRepeat
    /\ Cardinality(Unknown) > 3

\* C4: parse_grid keeps only the characters 1-9, 0 and '.', fails unless
\* exactly 81 of them remain, and maps them in row-major order onto A1..I9;
\* the failure ends the constructor, so no solve is attempted.
C4_ParseGrid ==
    grid # None =>
        IF Len(Symbols(grid)) = 81
        THEN /\ ~(pc = "crashed" /\ exc.in = "__init__")
             /\ pc # "start" =>
                   /\ DOMAIN problem = CellKeys
                   /\ \A i \in 1..81 : problem[CellAt(i)] = <<Symbols(grid)[i]>>
        ELSE /\ pc = "crashed"
             /\ exc = [type |-> "Exception", msg |-> "got invalid puzzle format", in |-> "__init__"]
             /\ problem = NoneObj
             /\ ~checked
             /\ solution = NoneObj

\* The constructor failed on a text with discarded characters and 80
\* symbols.
C4_Witness ==
    /\ pc = "crashed" /\ exc.in = "__init__"
    /\ Len(Symbols(grid)) = 80
    /\ Len(grid) > 81

\* C5: is_solved answers true only for a solution that satisfies the units
\* and the cages of the puzzle.
C5_VerifyChecksCages ==
    (pc = "verified" /\ verified = <<TRUE>>) =>
        /\ IsTotal(solution)
        /\ UnitsHold(solution)
        /\ CagesHold(solution)

\* C6: an unsatisfiable puzzle is a normal result of the run: the solver has
\* decided, no solution is recorded, and the run has not ended by an
\* exception.
C6_UnsatIsAResult ==
    (checked /\ solution = NoneObj) => (pc # "crashed" /\ exc = NoExc)

\* C7: when a cage names a reference that is not one of the 81 cell keys,
\* the solve fails while the constraints are built: the solver is never
\* asked and no solution is recorded.
C7_UnknownRefRejected ==
    (/\ SolveReturned \/ SolveRaised
     /\ CagesParse
     /\ ~(CageRefs \subseteq CellKeys))
        => (SolveRaised /\ ~checked /\ solution = NoneObj)

\* C8: for a valid puzzle text, get_oneline_grid of the parsed grid is the
\* prefix "[+] GRID:", then the 81 symbols of the text in order, then a
\* newline.
C8_RoundTrip ==
    pc = "rendered" =>
        /\ Len(oneline) = 9 + 81 + 1
        /\ SubSeq(oneline, 1, 9) = <<"[", "+", "]", " ", "G", "R", "I", "D", ":">>
        /\ SubSeq(oneline, 10, 90) = Symbols(grid)
        /\ oneline[91] = "\n"

\* A text with discarded characters and both blank symbols was rendered.
C8_Witness ==
    /\ pc = "rendered"
    /\ Len(grid) > 81
    /\ {"0", "."} \subseteq Range(grid)

\* C9: unitlist holds 27 units: the 9 columns, the 9 rows and the 9 boxes of
\* the grid, each of 9 distinct cells; every cell has exactly 3 units, one
\* column, one row and one box, and lies in each of them.
C9_UnitStructure ==
    Constructed =>
        /\ Len(unitlist) = 27
        /\ unitlist = unit_cols \o unit_rows \o unit_boxes
        /\ Len(unit_cols) = 9 /\ {Range(unit_cols[k]) : k \in 1..9} = ColSets
        /\ Len(unit_rows) = 9 /\ {Range(unit_rows[k]) : k \in 1..9} = RowSets
        /\ Len(unit_boxes) = 9 /\ {Range(unit_boxes[k]) : k \in 1..9} = BoxSets
        /\ \A k \in 1..27 :
              /\ Len(unitlist[k]) = 9
              /\ Cardinality(Range(unitlist[k])) = 9
        /\ DOMAIN units = CellKeys
        /\ \A e \in CellKeys :
              /\ Cardinality({k \in 1..27 : e \in Range(unitlist[k])}) = 3
              /\ Len(units[e]) = 3
              /\ \A fam \in {ColSets, RowSets, BoxSets} :
                    Cardinality({k \in 1..3 : Range(units[e][k]) \in fam}) = 1
              /\ \A k \in 1..3 : e \in Range(units[e][k])

\* The constructor has built the units and the run went on.
C9_Witness == pc = "constructed" /\ Len(unitlist) = 27 /\ Len(grid) > 81

\* The cell and the value of every constraint that fixes a cell.
FixedCells == {<<c.vars[1], c.vals>> : c \in Range(FixConstraints(problem))}

\* C10: every given digit is pinned, so a returned solution repeats it;
\* '0' and '.' both mean unknown and add no fixing constraint, their cells
\* are filled with digits; solve_z3 leaves the parsed problem unchanged.
C10_GivensPinned ==
    /\ [](Constructed =>
            FixedCells = {<<e, {DigitOf(problem[e])}>> : e \in CellKeys \ Unknown})
    /\ [](SolveReturned =>
            \A e \in CellKeys :
                IF problem[e] \in DigitStrs THEN solution[e] = problem[e]
                ELSE problem[e] \in BlankStrs /\ solution[e] \in DigitStrs)
    /\ [][pc = "constructed" => problem' = problem]_vars

\* A solution was returned for a puzzle that writes one unknown cell '0' and
\* another '.'.
C10_Witness ==
    /\ SolveReturned
    /\ BlankStrs \subseteq {problem[e] : e \in CellKeys}

=============================================================================
